---- MODULE Spec2Model ----
(***************************************************************************)
(* Region-growing image compression (cpp_implementation): the colour       *)
(* metric, the similarity cache and the growth loop of                     *)
(* AdaptiveRegionGrower, driven by the compression orchestrator.           *)
(*                                                                         *)
(* Numbers.  The program computes in IEEE doubles.  Here every double is   *)
(* an exact value: a threshold is a fraction n/d of naturals, and a        *)
(* similarity 1 - sqrt(q)/441.67 is carried as the integer q, the squared  *)
(* RGB distance it was computed from.  A comparison of a similarity with a *)
(* threshold is decided exactly, on naturals of arbitrary size.            *)
(***************************************************************************)
EXTENDS Integers, Sequences, FiniteSets, Bags, TLC

(***************************************************************************)
(* Naturals of arbitrary size: little-endian digit sequences, base 10^4,   *)
(* without leading zeros (zero is the empty sequence).                     *)
(***************************************************************************)
RECURSIVE BigOf(_)
BigOf(n) == IF n = 0 THEN <<>> ELSE <<n % 10000>> \o BigOf(n \div 10000)

RECURSIVE BigCarry(_, _)
BigCarry(cols, c) ==
    IF cols = <<>>
    THEN BigOf(c)
    ELSE LET v == Head(cols) + c
         IN  <<v % 10000>> \o BigCarry(Tail(cols), v \div 10000)

BigDigit(a, i) == IF i <= Len(a) THEN a[i] ELSE 0

BigMax(m, n) == IF m >= n THEN m ELSE n

BigAdd(a, b) ==
    BigCarry([i \in 1..BigMax(Len(a), Len(b)) |-> BigDigit(a, i) + BigDigit(b, i)], 0)

RECURSIVE BigColumn(_, _, _, _)
BigColumn(a, b, k, i) ==
    IF i > Len(a) \/ i > k
    THEN 0
    ELSE (IF k + 1 - i <= Len(b) THEN a[i] * b[k + 1 - i] ELSE 0)
         + BigColumn(a, b, k, i + 1)

BigMul(a, b) ==
    IF a = <<>> \/ b = <<>>
    THEN <<>>
    ELSE BigCarry([k \in 1..(Len(a) + Len(b) - 1) |-> BigColumn(a, b, k, 1)], 0)

RECURSIVE BigStrip(_)
BigStrip(a) ==
    IF a = <<>> THEN <<>>
    ELSE IF a[Len(a)] = 0 THEN BigStrip(SubSeq(a, 1, Len(a) - 1))
    ELSE a

RECURSIVE BigLeqFrom(_, _, _)
BigLeqFrom(a, b, i) ==
    IF i = 0 THEN TRUE
    ELSE IF a[i] # b[i] THEN a[i] < b[i]
    ELSE BigLeqFrom(a, b, i - 1)

BigLeq(a, b) ==
    IF Len(a) # Len(b) THEN Len(a) < Len(b) ELSE BigLeqFrom(a, b, Len(a))

\* a - b, for b <= a
RECURSIVE BigBorrow(_, _, _, _)
BigBorrow(a, b, i, c) ==
    IF i > Len(a)
    THEN <<>>
    ELSE LET v == a[i] - BigDigit(b, i) - c
         IN  IF v < 0
             THEN <<v + 10000>> \o BigBorrow(a, b, i + 1, 1)
             ELSE <<v>> \o BigBorrow(a, b, i + 1, 0)

BigSub(a, b) == BigStrip(BigBorrow(a, b, 1, 0))

(***************************************************************************)
(* Fractions n/d of such naturals (d > 0): the values of the doubles       *)
(* similarityThreshold_, variance, varianceFactor and adjustedThreshold.   *)
(***************************************************************************)
R(n, d) == [n |-> BigOf(n), d |-> BigOf(d)]

RLeq(a, b) == BigLeq(BigMul(a.n, b.d), BigMul(b.n, a.d))

REq(a, b) == RLeq(a, b) /\ RLeq(b, a)

RMin(a, b) == IF RLeq(b, a) THEN b ELSE a

RAdd(a, b) ==
    [n |-> BigAdd(BigMul(a.n, b.d), BigMul(b.n, a.d)), d |-> BigMul(a.d, b.d)]

RMul(a, b) == [n |-> BigMul(a.n, b.n), d |-> BigMul(a.d, b.d)]

\* 1.0 - a, for a <= 1
ROneMinus(a) == [n |-> BigSub(a.d, a.n), d |-> a.d]

(***************************************************************************)
(* Colours and the colour metric (utils/image_utils).                      *)
(***************************************************************************)
Color(r, g, b) == [r |-> r, g |-> g, b |-> b]

\* Color(): the default-constructed colour
Black == Color(0, 0, 0)

White == Color(255, 255, 255)

Red == Color(255, 0, 0)

Blue == Color(0, 0, 255)

Gray(v) == Color(v, v, v)

\* const double maxDistance = 441.67, in hundredths
MaxDistanceCenti == 44167

\* 1.0 - distance / maxDistance with distance = sqrt(dr*dr + dg*dg + db*db):
\* the result is carried by the radicand sq
colorSimilarity(c1, c2) ==
    LET dr == c1.r - c2.r
        dg == c1.g - c2.g
        db == c1.b - c2.b
    IN  [sq |-> dr * dr + dg * dg + db * db]

\* similarity s >= threshold t (a fraction):
\*   1 - sqrt(sq)/441.67 >= n/d   <=>   n <= d  and  sq * (100 d)^2 <= (44167 (d - n))^2
SimGeq(s, t) ==
    /\ BigLeq(t.n, t.d)
    /\ LET lhs == BigMul(BigOf(100), t.d)
           rhs == BigMul(BigOf(MaxDistanceCenti), BigSub(t.d, t.n))
       IN  BigLeq(BigMul(BigOf(s.sq), BigMul(lhs, lhs)), BigMul(rhs, rhs))

\* s1 >= s2 between two similarities: the smaller distance is the larger similarity
SimAtLeast(s1, s2) == s1.sq <= s2.sq

\* std::max of two similarities
SimMax(s1, s2) == IF SimAtLeast(s1, s2) THEN s1 ELSE s2

\* the similarity is exactly 1.0 (distance 0)
SimIsOne(s) == s.sq = 0

\* 0.0 <= s <= 1.0 (the distance is never negative, so s <= 1.0 always)
SimInUnitRange(s) == s.sq >= 0 /\ SimGeq(s, R(0, 1))

(***************************************************************************)
(* Images (class Image): width_, height_ and the row-major pixels_.        *)
(***************************************************************************)
Image(width, height, pixels) == [width |-> width, height |-> height, pixels |-> pixels]

Point(x, y) == [x |-> x, y |-> y]

Points(img) == {Point(x, y) : x \in 0..(img.width - 1), y \in 0..(img.height - 1)}

getIndex(img, x, y) == y * img.width + x

getPixel(img, x, y) ==
    IF x < 0 \/ x >= img.width \/ y < 0 \/ y >= img.height
    THEN Black
    ELSE img.pixels[getIndex(img, x, y) + 1]

isValidCoordinate(img, x, y) == x >= 0 /\ x < img.width /\ y >= 0 /\ y < img.height

\* the points up to two steps away
getNeighborsTwoSteps(img, x, y) ==
    {p \in {Point(x + dx, y + dy) : dx \in -2..2, dy \in -2..2} :
        isValidCoordinate(img, p.x, p.y) /\ ~(p.x = x /\ p.y = y)}

\* the 8-connected neighbours of (x, y) that lie inside the image
getNeighbors(img, x, y) ==
    {p \in {Point(x + dx, y + dy) : dx \in {-1, 0, 1}, dy \in {-1, 0, 1}} :
        isValidCoordinate(img, p.x, p.y) /\ ~(p.x = x /\ p.y = y)}

RECURSIVE SumSeq(_)
SumSeq(q) == IF q = <<>> THEN 0 ELSE Head(q) + SumSeq(Tail(q))

\* setPixel guarded by the range of the index alone
setPixelByIndex(img, x, y, color) ==
    IF getIndex(img, x, y) < 0 \/ getIndex(img, x, y) >= img.width * img.height
    THEN img
    ELSE [img EXCEPT !.pixels[getIndex(img, x, y) + 1] = color]

\* the image after setPixel(x, y, color)
setPixel(img, x, y, color) ==
    IF x < 0 \/ x >= img.width \/ y < 0 \/ y >= img.height
    THEN img
    ELSE [img EXCEPT !.pixels[getIndex(img, x, y) + 1] = color]

(***************************************************************************)
(* Image::calculateAverageColor.  The three sums are uint32_t: each        *)
(* addition is modulo 2^32.  A list of points is summed as a sequence of   *)
(* runs, a run being `times` consecutive points whose pixels have one      *)
(* colour: the loop adds that colour `times` times.                        *)
(***************************************************************************)
\* 2^16: a uint32_t value is carried as its two 16-bit halves [hi, lo]
TwoTo16 == 65536

Uint32(n) == [hi |-> n \div TwoTo16, lo |-> n % TwoTo16]

\* total += channel, `times` times over, in uint32_t (times < 2^31, channel <= 255)
Uint32Add(total, channel, times) ==
    LET low == total.lo + (times % TwoTo16) * channel
        high == total.hi + (times \div TwoTo16) * channel + low \div TwoTo16
    IN  [hi |-> high % TwoTo16, lo |-> low % TwoTo16]

\* the uint32_t sum after the first n runs
RECURSIVE Uint32Sum(_, _, _)
Uint32Sum(channels, times, n) ==
    IF n = 0
    THEN Uint32(0)
    ELSE Uint32Add(Uint32Sum(channels, times, n - 1), channels[n], times[n])

\* q * count <= total, for q <= 255 and an int count
Uint32TimesLeq(q, count, total) ==
    LET low == q * (count % TwoTo16)
        high == q * (count \div TwoTo16) + low \div TwoTo16
    IN  high < total.hi \/ (high = total.hi /\ low % TwoTo16 <= total.lo)

\* the largest q in lo..hi with q * count <= total
RECURSIVE Uint32Quot(_, _, _, _)
Uint32Quot(total, count, lo, hi) ==
    IF lo >= hi
    THEN lo
    ELSE LET mid == (lo + hi + 1) \div 2
         IN  IF Uint32TimesLeq(mid, count, total)
             THEN Uint32Quot(total, count, mid, hi)
             ELSE Uint32Quot(total, count, lo, mid - 1)

\* static_cast<uint8_t>(total / count): a sum of count bytes, wrapped or not, is at
\* most 255 * count, so the quotient is at most 255
Uint8Quotient(total, count) == Uint32Quot(total, count, 0, 255) % 256

\* calculateAverageColor on a list given by its runs [color, times]
AverageOfRuns(runs) ==
    IF runs = <<>>
    THEN Black
    ELSE LET n == Len(runs)
             times == [i \in 1..n |-> runs[i].times]
             totalR == Uint32Sum([i \in 1..n |-> runs[i].color.r], times, n)
             totalG == Uint32Sum([i \in 1..n |-> runs[i].color.g], times, n)
             totalB == Uint32Sum([i \in 1..n |-> runs[i].color.b], times, n)
             count == SumSeq(times)
         IN  Color(Uint8Quotient(totalR, count), Uint8Quotient(totalG, count),
                   Uint8Quotient(totalB, count))

\* the runs of a list of points of img, one run per point
RunsOf(points, img) ==
    [i \in 1..Len(points) |->
        [color |-> getPixel(img, points[i].x, points[i].y), times |-> 1]]

\* Image::calculateAverageColor(points, image)
calculateAverageColor(points, img) == AverageOfRuns(RunsOf(points, img))

(***************************************************************************)
(* AdaptiveRegionGrower: the local threshold and the similarity cache.     *)
(***************************************************************************)
IntMax(a, b) == IF a >= b THEN a ELSE b

IntMin(a, b) == IF a <= b THEN a ELSE b

\* int radius = 3, the default argument of calculateAdaptiveThreshold
Radius == 3

\* a threshold a tenth below the base
calculateAdaptiveThresholdBelow(img, base, x, y) == RMul(base, R(9, 10))

\* calculateAdaptiveThreshold(x, y) of a grower on img with similarityThreshold_ = base
calculateAdaptiveThreshold(img, base, x, y) ==
    LET xMin == IntMax(0, x - Radius)
        xMax == IntMin(img.width - 1, x + Radius)
        yMin == IntMax(0, y - Radius)
        yMax == IntMin(img.height - 1, y + Radius)
        cols == xMax - xMin + 1
        count == cols * (yMax - yMin + 1)
        localColors ==
            [i \in 1..count |->
                getPixel(img, xMin + ((i - 1) % cols), yMin + ((i - 1) \div cols))]
        totalR == SumSeq([i \in 1..count |-> localColors[i].r])
        totalG == SumSeq([i \in 1..count |-> localColors[i].g])
        totalB == SumSeq([i \in 1..count |-> localColors[i].b])
        avgColor == Color(totalR \div count, totalG \div count, totalB \div count)
        sumSq ==
            SumSeq([i \in 1..count |->
                colorSimilarity(localColors[i], avgColor).sq])
        variance == R(sumSq, count * 3 * 255 * 255)
        varianceFactor == RMin(R(1, 1), RMul(variance, R(2, 1)))
    IN  RAdd(base, RMul(RMul(ROneMinus(base), ROneMinus(varianceFactor)), R(3, 10)))

\* the pair taken as given, without the exchange
CacheOrderAsGiven(c1, c2) == <<c1, c2>>

\* the order-normalised pair (first, second) of getCachedSimilarity
CacheOrder(c1, c2) ==
    IF c2.r < c1.r \/ (c2.r = c1.r /\ (c2.g < c1.g \/ (c2.g = c1.g /\ c2.b < c1.b)))
    THEN <<c2, c1>>
    ELSE <<c1, c2>>

\* the std::string key "r-g-b_r-g-b" of the normalised pair
CacheKey(c1, c2) ==
    LET first == CacheOrder(c1, c2)[1]
        second == CacheOrder(c1, c2)[2]
    IN  ToString(first.r) \o "-" \o ToString(first.g) \o "-" \o ToString(first.b)
        \o "_" \o
        ToString(second.r) \o "-" \o ToString(second.g) \o "-" \o ToString(second.b)

\* the value getCachedSimilarity(c1, c2) returns when the cache holds `cache`
getCachedSimilarity(cache, c1, c2) ==
    IF CacheKey(c1, c2) \in DOMAIN cache
    THEN cache[CacheKey(c1, c2)]
    ELSE colorSimilarity(c1, c2)

\* the cache after getCachedSimilarity(c1, c2): a miss stores the computed value
CacheStore(cache, c1, c2) ==
    IF CacheKey(c1, c2) \in DOMAIN cache
    THEN cache
    ELSE (CacheKey(c1, c2) :> colorSimilarity(c1, c2)) @@ cache

\* the cache after the calls getCachedSimilarity(c1, c2) for the pairs of a sequence
RECURSIVE CacheStoreAll(_, _)
CacheStoreAll(cache, pairs) ==
    IF pairs = <<>>
    THEN cache
    ELSE CacheStoreAll(CacheStore(cache, Head(pairs)[1], Head(pairs)[2]), Tail(pairs))

(***************************************************************************)
(* Inputs: the images and the configuration surface of one compression.    *)
(***************************************************************************)
\* the largest --max-region-size tried; the small images have at most 6 pixels
MaxCap == 6

\* maxRegionSize: the default 0 and the positive caps
Caps == 0..MaxCap

\* similarityThreshold values: the ends of the range, 0.8, 0.85 and the default 0.9
Thresholds == {R(0, 100), R(80, 100), R(85, 100), R(90, 100), R(100, 100)}

Row(colors) == Image(Len(colors), 1, colors)

\* every 3x1 image of three grey levels
GreyRows == {Row(<<a, b, c>>) : a, b, c \in {Gray(60), Gray(100), Gray(130)}}

SmallImages ==
    GreyRows \cup
    { Row(<<Red>>),
      Row(<<Gray(60), Gray(100), Gray(130), Gray(70)>>),
      Row(<<Black, White, Black>>),
      Row(<<Gray(60), Gray(60), Gray(70), Gray(130), Gray(130)>>),
      Row(<<Black, Gray(19), Black, Black, White>>),
      Image(2, 2, <<Red, Red, Red, Red>>),
      Image(2, 2, <<Red, Blue, Blue, Red>>),
      Image(3, 2, <<Gray(100), Gray(130), Gray(100), Gray(70), Gray(100), Gray(60)>>) }

\* the 4x4 image of two 2x4 halves, red on the left and blue on the right
TwoHalves ==
    Image(4, 4, [i \in 1..16 |-> IF (i - 1) % 4 < 2 THEN Red ELSE Blue])

Config(img, threshold, cap, adaptive) ==
    [image |-> img, similarityThreshold |-> threshold,
     maxRegionSize |-> cap, adaptiveMode |-> adaptive]

Configs ==
    {Config(img, t, cap, a) : img \in SmallImages, t \in Thresholds,
                              cap \in Caps, a \in BOOLEAN}
    \cup {Config(TwoHalves, R(90, 100), 0, TRUE)}

(***************************************************************************)
(* State.                                                                  *)
(***************************************************************************)
VARIABLES
    image,                  \* ImageCompressor::image_
    similarityThreshold_,   \* RegionGrower::similarityThreshold_
    maxRegionSize_,         \* RegionGrower::maxRegionSize_
    adaptiveMode_,          \* AdaptiveRegionGrower::adaptiveMode_
    similarityCache_,       \* AdaptiveRegionGrower::similarityCache_
    processed,              \* the processed mask of the run
    regions_,               \* ImageCompressor::regions_
    regionColors_,          \* ImageCompressor::regionColors_
    output,                 \* the pixels of the compressed image
    pc,                     \* "scan": between regions, "grow": in findRegion, "done"
    seed,                   \* findRegion: (seedX, seedY)
    region,                 \* findRegion: the membership set
    regionList,             \* findRegion: the output sequence
    priorityQueue,          \* findRegion: the queue, a bag of PriorityItem
    baseAdaptiveThreshold,  \* findRegion: the threshold at the seed
    iterations,             \* findRegion: the iterations of the main loop so far
    run,                    \* 1: first compression of the image, 2: second
    previous,               \* the threshold and the results of the first compression
    lastCall                \* the last direct call on an Image, its arguments and result

vars ==
    <<image, similarityThreshold_, maxRegionSize_, adaptiveMode_, similarityCache_,
      processed, regions_, regionColors_, output, pc, seed, region, regionList,
      priorityQueue, baseAdaptiveThreshold, iterations, run, previous, lastCall>>

configVars == <<image, maxRegionSize_, adaptiveMode_>>

growVars ==
    <<seed, region, regionList, priorityQueue, baseAdaptiveThreshold, iterations>>

resultVars == <<processed, regions_, regionColors_, output>>

NoPoint == Point(-1, -1)

NoThreshold == R(0, 1)

EmptyCache == [k \in {} |-> colorSimilarity(Black, Black)]

NoCall == [op |-> "none"]

\* a fresh similarityCache_, an all-false mask, no regions, a blank output image
Init ==
    /\ \E c \in Configs :
        /\ image = c.image
        /\ similarityThreshold_ = c.similarityThreshold
        /\ maxRegionSize_ = c.maxRegionSize
        /\ adaptiveMode_ = c.adaptiveMode
    /\ similarityCache_ = EmptyCache
    /\ processed = [p \in Points(image) |-> FALSE]
    /\ regions_ = <<>>
    /\ regionColors_ = <<>>
    /\ output = [p \in Points(image) |-> Black]
    /\ pc = "scan"
    /\ seed = NoPoint
    /\ region = {}
    /\ regionList = <<>>
    /\ priorityQueue = EmptyBag
    /\ baseAdaptiveThreshold = NoThreshold
    /\ iterations = 0
    /\ run = 1
    /\ previous = [threshold |-> NoThreshold, regions |-> <<>>, output |-> <<>>]
    /\ lastCall = NoCall

(***************************************************************************)
(* Helpers of the growth loop.                                             *)
(***************************************************************************)
\* the mask read with its indices exchanged, processed[p.x][p.y]
MaskAtTransposed(mask, p) ==
    IF Point(p.y, p.x) \in DOMAIN mask THEN mask[Point(p.y, p.x)] ELSE FALSE

\* processed[p.y][p.x]
MaskAt(mask, p) == mask[p]

\* region.size() < static_cast<size_t>(maxRegionSize): a negative int converts to a
\* size_t of at least 2^63, above every size
SizeBelowCap(size, maxRegionSize) ==
    IF maxRegionSize < 0 THEN TRUE ELSE size < maxRegionSize

\* the loop condition with <= for <
LoopConditionInclusive(queue, members, maxRegionSize) ==
    /\ queue # EmptyBag
    /\ (maxRegionSize < 0 \/ Cardinality(members) <= maxRegionSize)

\* the condition of the main region growing loop
LoopCondition(queue, members, maxRegionSize) ==
    /\ queue # EmptyBag
    /\ SizeBelowCap(Cardinality(members), maxRegionSize)

\* 1.0 - similarity, the value sqrt(dist)/441.67
OneMinus(s) == [dist |-> s.sq]

\* PriorityItem::operator>
PriorityGreater(a, b) == a.priority.dist > b.priority.dist

\* {1.0 - similarity, point, similarity}
PriorityItem(point, similarity) ==
    [priority |-> OneMinus(similarity), point |-> point, similarity |-> similarity]

\* the test without the membership part
SkippedIfProcessed(point, members, mask) == MaskAt(mask, point)

\* region.count(current.point) > 0 || processed[current.point.y][current.point.x]
Skipped(point, members, mask) == point \in members \/ MaskAt(mask, point)

\* any queued entry taken as the top
IsQueued(queue, item) == BagIn(item, queue)

\* priorityQueue.top() may be item: std::greater puts no entry above one that is not
\* greater than any other; among entries of equal priority any may be on top
IsTop(queue, item) ==
    /\ BagIn(item, queue)
    /\ \A other \in BagToSet(queue) : ~PriorityGreater(item, other)

\* top() without pop(): the entry stays queued
PopNothing(queue, item) == queue

\* priorityQueue.pop() of item
Pop(queue, item) == queue (-) SetToBag({item})

\* the seed inserted into the set but not pushed onto the list
SeedListEmpty(seedPoint) == <<>>

\* the initial regionList: the seed point alone
SeedList(seedPoint) == <<seedPoint>>

RECURSIVE SetToSeq(_)
SetToSeq(S) ==
    IF S = {} THEN <<>>
    ELSE LET e == CHOOSE e \in S : TRUE IN <<e>> \o SetToSeq(S \ {e})

Pixel(p) == getPixel(image, p.x, p.y)

\* the threshold taken as a bound on the distance: 1.0 - similarityThreshold_
AdaptiveThresholdAsDistance(current) == ROneMinus(similarityThreshold_)

\* the threshold at the seed applied to every candidate
AdaptiveThresholdAtSeed(current) == baseAdaptiveThreshold

\* the threshold applied to a popped candidate
AdaptiveThreshold(current) ==
    IF adaptiveMode_
    THEN RMin(baseAdaptiveThreshold,
              calculateAdaptiveThreshold(image, similarityThreshold_, current.x, current.y))
    ELSE similarityThreshold_

\* the neighbours of an accepted candidate that are examined for the queue
OpenNeighbors(current, members) ==
    {n \in getNeighbors(image, current.x, current.y) :
        ~(n \in members \/ MaskAt(processed, n))}

\* the similarity to the seed alone
BestSimilarityToSeed(cache, current, neighbor) ==
    getCachedSimilarity(cache, Pixel(seed), Pixel(neighbor))

\* std::max(similarityToSeed, similarityToCurrent) of a neighbour
BestSimilarity(cache, current, neighbor) ==
    SimMax(getCachedSimilarity(cache, Pixel(seed), Pixel(neighbor)),
           getCachedSimilarity(cache, Pixel(current), Pixel(neighbor)))

\* bestSimilarity >= adaptiveThreshold * 0.8
PassesMinimum(best, adaptiveThreshold) == SimGeq(best, RMul(adaptiveThreshold, R(8, 10)))

\* the entries pushed for the neighbours of an accepted candidate
NeighborItems(cache, current, members, adaptiveThreshold) ==
    {PriorityItem(n, BestSimilarity(cache, current, n)) :
        n \in {m \in OpenNeighbors(current, members) :
                  PassesMinimum(BestSimilarity(cache, current, m), adaptiveThreshold)}}

\* the cache after the two lookups made for each examined neighbour
NeighborCache(cache, current, members) ==
    LET ns == SetToSeq(OpenNeighbors(current, members))
    IN  CacheStoreAll(
            CacheStoreAll(cache, [i \in 1..Len(ns) |-> <<Pixel(seed), Pixel(ns[i])>>]),
            [i \in 1..Len(ns) |-> <<Pixel(current), Pixel(ns[i])>>])

\* the seed of the next region: the first unprocessed pixel in raster order
NextSeed(mask) ==
    CHOOSE p \in Points(image) :
        /\ ~mask[p]
        /\ \A q \in Points(image) :
              ~mask[q] => getIndex(image, p.x, p.y) <= getIndex(image, q.x, q.y)

SeqRange(q) == {q[i] : i \in 1..Len(q)}

(***************************************************************************)
(* Actions.                                                                *)
(***************************************************************************)
\* findRegion(seedX, seedY, processed) up to the main loop, called by the orchestrator
\* on the next seed
FindRegionStart ==
    /\ pc = "scan"
    /\ LET seedPoint == NextSeed(processed)
           seedColor == Pixel(seedPoint)
           open == {n \in getNeighbors(image, seedPoint.x, seedPoint.y) :
                       ~MaskAt(processed, n)}
           ns == SetToSeq(open)
       IN  /\ seed' = seedPoint
           /\ region' = {seedPoint}
           /\ regionList' = SeedList(seedPoint)
           /\ priorityQueue' =
                SetToBag({PriorityItem(n, getCachedSimilarity(similarityCache_,
                                                              seedColor, Pixel(n))) :
                            n \in open})
           /\ similarityCache_' =
                CacheStoreAll(similarityCache_,
                              [i \in 1..Len(ns) |-> <<seedColor, Pixel(ns[i])>>])
           /\ baseAdaptiveThreshold' =
                IF adaptiveMode_
                THEN calculateAdaptiveThreshold(image, similarityThreshold_,
                                                seedPoint.x, seedPoint.y)
                ELSE similarityThreshold_
    /\ iterations' = 0
    /\ pc' = "grow"
    /\ UNCHANGED <<configVars, similarityThreshold_, resultVars, run, previous, lastCall>>

\* one iteration: the popped point is already in the region or processed
GrowSkip ==
    /\ pc = "grow"
    /\ LoopCondition(priorityQueue, region, maxRegionSize_)
    /\ \E current \in BagToSet(priorityQueue) :
        /\ IsTop(priorityQueue, current)
        /\ Skipped(current.point, region, processed)
        /\ priorityQueue' = Pop(priorityQueue, current)
    /\ iterations' = iterations + 1
    /\ UNCHANGED <<configVars, similarityThreshold_, similarityCache_, resultVars, pc,
                   seed, region, regionList, baseAdaptiveThreshold, run, previous, lastCall>>

\* one iteration: the popped point is similar enough to the seed and joins the region
GrowAccept ==
    /\ pc = "grow"
    /\ LoopCondition(priorityQueue, region, maxRegionSize_)
    /\ \E current \in BagToSet(priorityQueue) :
        /\ IsTop(priorityQueue, current)
        /\ ~Skipped(current.point, region, processed)
        /\ LET similarityToSeed ==
                   getCachedSimilarity(similarityCache_, Pixel(seed), Pixel(current.point))
               cache1 == CacheStore(similarityCache_, Pixel(seed), Pixel(current.point))
               adaptiveThreshold == AdaptiveThreshold(current.point)
               members == region \cup {current.point}
           IN  /\ SimGeq(similarityToSeed, adaptiveThreshold)
               /\ region' = members
               /\ regionList' = Append(regionList, current.point)
               /\ priorityQueue' =
                    Pop(priorityQueue, current)
                    (+) SetToBag(NeighborItems(cache1, current.point, members,
                                               adaptiveThreshold))
               /\ similarityCache_' = NeighborCache(cache1, current.point, members)
    /\ iterations' = iterations + 1
    /\ UNCHANGED <<configVars, similarityThreshold_, resultVars, pc, seed,
                   baseAdaptiveThreshold, run, previous, lastCall>>

\* one iteration: the popped point is not similar enough and is dropped
GrowReject ==
    /\ pc = "grow"
    /\ LoopCondition(priorityQueue, region, maxRegionSize_)
    /\ \E current \in BagToSet(priorityQueue) :
        /\ IsTop(priorityQueue, current)
        /\ ~Skipped(current.point, region, processed)
        /\ ~SimGeq(getCachedSimilarity(similarityCache_, Pixel(seed), Pixel(current.point)),
                   AdaptiveThreshold(current.point))
        /\ priorityQueue' = Pop(priorityQueue, current)
        /\ similarityCache_' =
                CacheStore(similarityCache_, Pixel(seed), Pixel(current.point))
    /\ iterations' = iterations + 1
    /\ UNCHANGED <<configVars, similarityThreshold_, resultVars, pc, seed, region,
                   regionList, baseAdaptiveThreshold, run, previous, lastCall>>

\* findRegion returns regionList; the orchestrator marks its points processed, records
\* the region with its average colour and paints it into the output
FindRegionReturn ==
    /\ pc = "grow"
    /\ ~LoopCondition(priorityQueue, region, maxRegionSize_)
    /\ LET color == calculateAverageColor(regionList, image)
           marked == [p \in Points(image) |->
                        processed[p] \/ p \in SeqRange(regionList)]
       IN  /\ processed' = marked
           /\ regions_' = Append(regions_, regionList)
           /\ regionColors_' = Append(regionColors_, color)
           /\ output' = [p \in Points(image) |->
                            IF p \in SeqRange(regionList) THEN color ELSE output[p]]
           /\ pc' = IF \A p \in Points(image) : marked[p] THEN "done" ELSE "scan"
    /\ seed' = NoPoint
    /\ region' = {}
    /\ regionList' = <<>>
    /\ priorityQueue' = EmptyBag
    /\ baseAdaptiveThreshold' = NoThreshold
    /\ iterations' = 0
    /\ UNCHANGED <<configVars, similarityThreshold_, similarityCache_, run, previous, lastCall>>

\* the same image is compressed once more, by a new compressor and grower, with the
\* same or a larger similarity threshold
NewRun ==
    /\ pc = "done"
    /\ run = 1
    /\ previous' = [threshold |-> similarityThreshold_, regions |-> regions_,
                    output |-> output]
    /\ similarityThreshold_' \in {t \in Thresholds : RLeq(similarityThreshold_, t)}
    /\ similarityCache_' = EmptyCache
    /\ processed' = [p \in Points(image) |-> FALSE]
    /\ regions_' = <<>>
    /\ regionColors_' = <<>>
    /\ output' = [p \in Points(image) |-> Black]
    /\ pc' = "scan"
    /\ run' = 2
    /\ UNCHANGED <<configVars, growVars, lastCall>>

Next ==
    \/ FindRegionStart
    \/ GrowSkip
    \/ GrowAccept
    \/ GrowReject
    \/ FindRegionReturn
    \/ NewRun

Spec == Init /\ [][Next]_vars

\* the program executes a step: it enters or leaves findRegion, or ends an iteration
\* of the main loop
Executes ==
    /\ pc # "done"
    /\ pc' \in {"scan", "grow", "done"}
    /\ iterations' \in {0, iterations + 1}

\* the program is sequential code: while a compression run is not complete, it goes
\* on executing
LiveSpec == Spec /\ WF_<<pc, iterations>>(Executes)

(***************************************************************************)
(* The Image class on its own: getPixel, setPixel and calculateAverageColor *)
(* called directly, with any coordinates and any list of points.           *)
(***************************************************************************)
\* the colours written into the image: the two ends of every channel
StoreColors == {Black, White}

\* every 2x2 image of these colours
StoreImages == {Image(2, 2, <<a, b, c, d>>) : a, b, c, d \in StoreColors}

\* coordinates inside the 2x2 grid and one step outside it on each side
StoreCoords == -1..2

\* the most points, or runs of points, in a list handed to calculateAverageColor
MaxPoints == 2

\* the point lists: empty, in bounds, out of bounds, with repeated points
PointLists ==
    UNION {[1..n -> {Point(0, 0), Point(1, 1), Point(-1, 0)}] : n \in 0..MaxPoints}

\* the lengths of a run: 16843009 = (2^32 - 1) / 255, the most pixels of value 255
\* whose sum is below 2^32, and the next length
RunLengths == {16843009, 16843010}

\* the lists of a large image, by runs
RunLists ==
    UNION {[1..n -> [color : {White, Gray(7)}, times : RunLengths]] : n \in 1..MaxPoints}

StoreInit ==
    /\ image \in StoreImages
    /\ similarityThreshold_ = NoThreshold
    /\ maxRegionSize_ = 0
    /\ adaptiveMode_ = FALSE
    /\ similarityCache_ = EmptyCache
    /\ processed = [p \in Points(image) |-> FALSE]
    /\ regions_ = <<>>
    /\ regionColors_ = <<>>
    /\ output = [p \in Points(image) |-> Black]
    /\ pc = "store"
    /\ seed = NoPoint
    /\ region = {}
    /\ regionList = <<>>
    /\ priorityQueue = EmptyBag
    /\ baseAdaptiveThreshold = NoThreshold
    /\ iterations = 0
    /\ run = 1
    /\ previous = [threshold |-> NoThreshold, regions |-> <<>>, output |-> <<>>]
    /\ lastCall = NoCall

growerVars ==
    <<similarityThreshold_, maxRegionSize_, adaptiveMode_, similarityCache_, processed,
      regions_, regionColors_, output, pc, seed, region, regionList, priorityQueue,
      baseAdaptiveThreshold, iterations, run, previous>>

\* image.getPixel(x, y)
GetPixelCall ==
    /\ \E x, y \in StoreCoords :
        lastCall' = [op |-> "getPixel", x |-> x, y |-> y,
                     result |-> getPixel(image, x, y)]
    /\ UNCHANGED <<image, growerVars>>

\* image.setPixel(x, y, color)
SetPixelCall ==
    /\ \E x, y \in StoreCoords, color \in StoreColors :
        /\ image' = setPixel(image, x, y, color)
        /\ lastCall' = [op |-> "setPixel", x |-> x, y |-> y, color |-> color,
                        before |-> image]
    /\ UNCHANGED growerVars

\* Image::calculateAverageColor(points, image)
AverageCall ==
    /\ \E points \in PointLists :
        lastCall' = [op |-> "calculateAverageColor", runs |-> RunsOf(points, image),
                     result |-> calculateAverageColor(points, image)]
    /\ UNCHANGED <<image, growerVars>>

\* Image::calculateAverageColor on the points of a region of a large image, the
\* region given by the runs of equal colour in its list
AverageLargeCall ==
    /\ \E runs \in RunLists :
        lastCall' = [op |-> "calculateAverageColor", runs |-> runs,
                     result |-> AverageOfRuns(runs)]
    /\ UNCHANGED <<image, growerVars>>

StoreNext ==
    \/ GetPixelCall
    \/ SetPixelCall
    \/ AverageCall
    \/ AverageLargeCall

StoreSpec == StoreInit /\ [][StoreNext]_vars

(***************************************************************************)
(* Properties.                                                             *)
(***************************************************************************)
\* findRegion is at its return statement: the loop condition has become false
Returning == pc = "grow" /\ ~LoopCondition(priorityQueue, region, maxRegionSize_)

C2_RegionWithinCap ==
    maxRegionSize_ > 0 =>
        /\ Len(regionList) <= maxRegionSize_
        /\ Cardinality(region) <= maxRegionSize_
        /\ \A i \in 1..Len(regions_) : Len(regions_[i]) <= maxRegionSize_

\* C2 witness: findRegion returns a region of exactly maxRegionSize points, more than
\* the seed, while candidates are still queued.
C2_Witness ==
    /\ Returning
    /\ maxRegionSize_ > 1
    /\ Len(regionList) = maxRegionSize_
    /\ priorityQueue # EmptyBag

\* C3: no point of the region findRegion is growing or returning is marked in the
\* processed mask it was called with.
C3_NoProcessedPoint ==
    pc = "grow" =>
        /\ ~processed[seed]
        /\ \A i \in 1..Len(regionList) : ~processed[regionList[i]]

\* C3 witness: findRegion returns a region of several points, one of which has a
\* processed neighbour.
C3_Witness ==
    /\ Returning
    /\ Len(regionList) >= 2
    /\ \E i \in 2..Len(regionList) :
          \E n \in getNeighbors(image, regionList[i].x, regionList[i].y) : processed[n]

\* C4: the sequence findRegion builds and returns is never empty and starts with the
\* seed (seedX, seedY), and so does every recorded region.
C4_SeedFirst ==
    /\ pc = "grow" => (regionList # <<>> /\ regionList[1] = seed /\ seed \in region)
    /\ \A i \in 1..Len(regions_) : regions_[i] # <<>>

\* C4 witness: findRegion returns a region that grew beyond its seed, from a mask that
\* is not empty.
C4_Witness ==
    /\ Returning
    /\ Len(regionList) >= 2
    /\ regionList[1] = seed
    /\ \E p \in Points(image) : processed[p]

\* the number of points in the first n regions
RECURSIVE TotalLength(_, _)
TotalLength(regions, n) ==
    IF n = 0 THEN 0 ELSE Len(regions[n]) + TotalLength(regions, n - 1)

\* C5: when a compression run is complete, every pixel of the mask is true, the
\* regions cover the grid and no pixel belongs to two regions or twice to one.
C5_Partition ==
    pc = "done" =>
        /\ \A p \in Points(image) : processed[p]
        /\ UNION {SeqRange(regions_[i]) : i \in 1..Len(regions_)} = Points(image)
        /\ TotalLength(regions_, Len(regions_)) = Cardinality(Points(image))

\* C5 witness: a complete run of several regions, one of them of several points.
C5_Witness ==
    /\ pc = "done"
    /\ Len(regions_) >= 2
    /\ \E i \in 1..Len(regions_) : Len(regions_[i]) >= 2

C8_SimilarityInUnitRange ==
    \A p, q \in Points(image) :
        CacheKey(Pixel(p), Pixel(q)) \in DOMAIN similarityCache_ =>
            /\ SimInUnitRange(similarityCache_[CacheKey(Pixel(p), Pixel(q))])
            /\ Pixel(p) = Pixel(q) =>
                  SimIsOne(similarityCache_[CacheKey(Pixel(p), Pixel(q))])

\* the colours of the image
ImageColors == {Pixel(p) : p \in Points(image)}

\* what getCachedSimilarity returns agrees for both argument orders and with
\* colorSimilarity, both orders have one key, and no two pairs share a key
CacheConsistent ==
    \A c1, c2 \in ImageColors :
        /\ getCachedSimilarity(similarityCache_, c1, c2) = colorSimilarity(c1, c2)
        /\ getCachedSimilarity(similarityCache_, c1, c2)
              = getCachedSimilarity(similarityCache_, c2, c1)
        /\ CacheKey(c1, c2) = CacheKey(c2, c1)
        /\ \A d1, d2 \in ImageColors :
              CacheKey(c1, c2) = CacheKey(d1, d2) => {c1, c2} = {d1, d2}

\* a step of one grower keeps every cache entry with its value
CacheKept ==
    run' = run =>
        \A k \in DOMAIN similarityCache_ :
            k \in DOMAIN similarityCache_' /\ similarityCache_'[k] = similarityCache_[k]

\* C9: at every moment getCachedSimilarity(c1, c2) = getCachedSimilarity(c2, c1) =
\* colorSimilarity(c1, c2), the two argument orders share one key that no other pair
\* has, and no step of a grower overwrites or removes a cache entry.
C9_CacheSound == []CacheConsistent /\ [][CacheKept]_vars

\* C9 witness: the cache holds entries for pairs of distinct colours and for a pair of
\* equal colours, and findRegion is running.
C9_Witness ==
    /\ pc = "grow"
    /\ Cardinality(DOMAIN similarityCache_) >= 3
    /\ \E c1, c2 \in ImageColors :
          /\ c1 # c2
          /\ CacheOrder(c1, c2) = <<c2, c1>>
          /\ CacheKey(c1, c2) \in DOMAIN similarityCache_

\* C10: a second complete run with a larger or equal similarityThreshold never has
\* fewer regions than the first.
C10_RegionCountMonotone ==
    (run = 2 /\ pc = "done" /\ RLeq(previous.threshold, similarityThreshold_))
    => Len(previous.regions) <= Len(regions_)

\* a region of n points has reached the size cap
CapReached(n) == maxRegionSize_ >= 0 /\ n >= maxRegionSize_

\* the first findRegion call of the second run, on the seed and the empty mask of the
\* first call of the first run, with the size cap reached in neither
FirstCallAgain ==
    /\ run = 2
    /\ pc = "grow"
    /\ regions_ = <<>>
    /\ ~CapReached(Len(previous.regions[1]))
    /\ ~CapReached(Len(regionList))

\* C10 amended: when the size cap is not reached, the region grown from the first seed
\* under a larger or equal threshold holds only points of the region grown from it
\* under the smaller threshold.
C10_FirstRegionShrinks ==
    (FirstCallAgain /\ RLeq(previous.threshold, similarityThreshold_)) =>
        region \subseteq SeqRange(previous.regions[1])

\* C10 witness: the first call returns, under a strictly larger threshold, strictly
\* fewer points than the first region of the first run.
C10_Witness ==
    /\ FirstCallAgain
    /\ Returning
    /\ ~RLeq(similarityThreshold_, previous.threshold)
    /\ region # SeqRange(previous.regions[1])
    /\ region \subseteq SeqRange(previous.regions[1])

\* the largest q in lo..hi with q * d <= v
RECURSIVE BigQuot(_, _, _, _)
BigQuot(v, d, lo, hi) ==
    IF lo >= hi
    THEN lo
    ELSE LET mid == (lo + hi + 1) \div 2
         IN  IF BigLeq(BigMul(BigOf(mid), d), v)
             THEN BigQuot(v, d, mid, hi)
             ELSE BigQuot(v, d, lo, mid - 1)

\* the exact sum of a channel over the first n runs
RECURSIVE ExactSum(_, _, _)
ExactSum(channels, times, n) ==
    IF n = 0
    THEN <<>>
    ELSE BigAdd(ExactSum(channels, times, n - 1),
                BigMul(BigOf(times[n]), BigOf(channels[n])))

\* the truncated mean of a channel over the runs (at most 255)
TruncatedMean(channels, times) ==
    BigQuot(ExactSum(channels, times, Len(times)), BigOf(SumSeq(times)), 0, 255)

\* the colour of the truncated means of the three channels
MeanColor(runs) ==
    LET times == [i \in 1..Len(runs) |-> runs[i].times]
    IN  Color(TruncatedMean([i \in 1..Len(runs) |-> runs[i].color.r], times),
              TruncatedMean([i \in 1..Len(runs) |-> runs[i].color.g], times),
              TruncatedMean([i \in 1..Len(runs) |-> runs[i].color.b], times))

\* C11: calculateAverageColor returns black for an empty list and, for a list of any
\* length, the colour of the truncated means of the channels of the listed pixels.
C11_AverageIsTruncatedMean ==
    lastCall.op = "calculateAverageColor" =>
        lastCall.result = IF lastCall.runs = <<>> THEN Black ELSE MeanColor(lastCall.runs)

\* the call addressed a pixel of the grid
CallInBounds == isValidCoordinate(image, lastCall.x, lastCall.y)

\* C12: getPixel outside the grid returns black; setPixel outside the grid leaves the
\* image as it was; setPixel inside the grid sets the addressed pixel and no other.
C12_BoundsLeniency ==
    /\ (lastCall.op = "getPixel" /\ ~CallInBounds) => lastCall.result = Black
    /\ (lastCall.op = "setPixel" /\ ~CallInBounds) => image = lastCall.before
    /\ (lastCall.op = "setPixel" /\ CallInBounds) =>
          /\ image.width = lastCall.before.width
          /\ image.height = lastCall.before.height
          /\ \A p \in Points(image) :
                getPixel(image, p.x, p.y) =
                    IF p = Point(lastCall.x, lastCall.y)
                    THEN lastCall.color
                    ELSE getPixel(lastCall.before, p.x, p.y)

\* C12 witness: a setPixel outside the grid whose row-major index y * width + x is
\* that of a pixel of another colour.
C12_Witness ==
    /\ lastCall.op = "setPixel"
    /\ ~CallInBounds
    /\ getIndex(image, lastCall.x, lastCall.y) \in 0..(image.width * image.height - 1)
    /\ image.pixels[getIndex(image, lastCall.x, lastCall.y) + 1] # lastCall.color

\* the entries a step takes out of the queue
PoppedItems ==
    {item \in BagToSet(priorityQueue) :
        CopiesIn(item, priorityQueue') < CopiesIn(item, priorityQueue)}

\* the step is one iteration of the growth loop
Iteration == pc = "grow" /\ pc' = "grow" /\ PoppedItems # {}

\* the point is neither a member nor processed
Open(point) == ~(point \in region \/ processed[point])

\* the threshold the claims name: the smaller of the local thresholds at the seed and
\* at the point in adaptive mode, the configured threshold otherwise
AppliedThreshold(point) ==
    IF adaptiveMode_
    THEN RMin(calculateAdaptiveThreshold(image, similarityThreshold_, seed.x, seed.y),
              calculateAdaptiveThreshold(image, similarityThreshold_, point.x, point.y))
    ELSE similarityThreshold_

\* the similarity of the point's colour to the seed colour reaches the threshold
\* applied to the point
SeedSimilar(point) ==
    SimGeq(colorSimilarity(Pixel(seed), Pixel(point)), AppliedThreshold(point))

\* an iteration that pops an open candidate appends it to the region exactly when its
\* similarity to the seed colour is at least the applied threshold
AcceptedIffSeedSimilar ==
    Iteration =>
        \A item \in PoppedItems :
            Open(item.point) =>
                /\ region' = IF SeedSimilar(item.point)
                             THEN region \cup {item.point} ELSE region
                /\ regionList' = IF SeedSimilar(item.point)
                                 THEN Append(regionList, item.point) ELSE regionList

\* C13: a popped candidate that is neither a member nor processed joins the region if
\* and only if its similarity to the seed colour is >= the applied threshold (the
\* minimum of the adaptive thresholds at the seed and at the candidate in adaptive
\* mode, the base threshold otherwise); no other similarity takes part.
C13_AcceptIffSeedSimilar == [][AcceptedIffSeedSimilar]_vars

\* C13 witness: in adaptive mode an open candidate is on top of the queue whose
\* similarity to the seed reaches the smaller of the two local thresholds but not the
\* threshold at the seed.
C13_Witness ==
    /\ pc = "grow"
    /\ adaptiveMode_
    /\ LoopCondition(priorityQueue, region, maxRegionSize_)
    /\ \E item \in BagToSet(priorityQueue) :
          /\ IsTop(priorityQueue, item)
          /\ Open(item.point)
          /\ SeedSimilar(item.point)
          /\ ~SimGeq(colorSimilarity(Pixel(seed), Pixel(item.point)),
                     baseAdaptiveThreshold)

\* the larger of the neighbour's similarities to the seed colour and to the colour of
\* the accepted point
BetterSimilarity(accepted, neighbor) ==
    SimMax(colorSimilarity(Pixel(seed), Pixel(neighbor)),
           colorSimilarity(Pixel(accepted), Pixel(neighbor)))

\* that similarity is at least 0.8 times the threshold applied to the accepted point
ReachesMinimum(accepted, neighbor) ==
    SimGeq(BetterSimilarity(accepted, neighbor),
           RMul(AppliedThreshold(accepted), R(8, 10)))

\* the 8-connected neighbours of the accepted point that are open once it is a member
OpenAround(accepted) ==
    {n \in getNeighbors(image, accepted.x, accepted.y) :
        Open(n) /\ n # accepted}

\* the entries the claim has enqueued after accepting the point
EntriesFor(accepted) ==
    {[priority |-> OneMinus(BetterSimilarity(accepted, n)), point |-> n,
      similarity |-> BetterSimilarity(accepted, n)] :
        n \in {m \in OpenAround(accepted) : ReachesMinimum(accepted, m)}}

\* an iteration leaves the queue without the popped entry, with one new entry for each
\* qualifying neighbour if it accepted the point and with no new entry otherwise
EnqueuedIffMinimum ==
    Iteration =>
        \A item \in PoppedItems :
            priorityQueue' =
                IF region' # region
                THEN Pop(priorityQueue, item) (+) SetToBag(EntriesFor(item.point))
                ELSE Pop(priorityQueue, item)

\* C14: when a candidate is accepted, each 8-connected neighbour that is neither a
\* member nor processed is enqueued iff the maximum of its similarities to the seed
\* and to the accepted candidate is >= 0.8 x the applied threshold, with priority
\* 1 - that maximum; a rejected or skipped candidate enqueues nothing.
C14_EnqueueIffMinimum == [][EnqueuedIffMinimum]_vars

\* C14 witness: an open candidate about to be accepted has an open neighbour that is
\* more similar to it than to the seed and reaches the minimum.
C14_Witness ==
    /\ pc = "grow"
    /\ LoopCondition(priorityQueue, region, maxRegionSize_)
    /\ \E item \in BagToSet(priorityQueue) :
          /\ IsTop(priorityQueue, item)
          /\ Open(item.point)
          /\ SeedSimilar(item.point)
          /\ \E n \in OpenAround(item.point) :
                /\ ReachesMinimum(item.point, n)
                /\ ~SimAtLeast(colorSimilarity(Pixel(seed), Pixel(n)),
                               colorSimilarity(Pixel(item.point), Pixel(n)))

\* an iteration pops an entry whose similarity no queued entry exceeds and whose
\* priority value no queued entry undercuts
PoppedIsMostSimilar ==
    Iteration =>
        \A item \in PoppedItems :
            \A other \in BagToSet(priorityQueue) :
                /\ SimAtLeast(item.similarity, other.similarity)
                /\ item.priority.dist <= other.priority.dist

\* C15: every entry's priority is 1 - its similarity, and the entry each iteration
\* pops has the highest similarity (lowest priority value) of all queued entries.
C15_PopHighestSimilarity ==
    /\ [](\A item \in BagToSet(priorityQueue) :
             item.priority = OneMinus(item.similarity))
    /\ [][PoppedIsMostSimilar]_vars

\* C15 witness: the loop is about to pop from a queue that holds entries of different
\* similarities, after a point has been accepted.
C15_Witness ==
    /\ pc = "grow"
    /\ LoopCondition(priorityQueue, region, maxRegionSize_)
    /\ Len(regionList) >= 2
    /\ \E a, b \in BagToSet(priorityQueue) : a.similarity # b.similarity

\* a sequence without a repeated element
NoDuplicates(q) == Cardinality(SeqRange(q)) = Len(q)

\* C16: the sequence findRegion builds and the membership set hold exactly the same
\* points, and no returned or recorded region holds a point twice.
C16_NoDuplicatePoints ==
    /\ pc = "grow" => (SeqRange(regionList) = region /\ NoDuplicates(regionList))
    /\ \A i \in 1..Len(regions_) : NoDuplicates(regions_[i])

\* C16 witness: the entry on top of the queue is for a point that is already a member
\* of the region, and the loop is about to pop it.
C16_Witness ==
    /\ pc = "grow"
    /\ LoopCondition(priorityQueue, region, maxRegionSize_)
    /\ Len(regionList) >= 2
    /\ \E item \in BagToSet(priorityQueue) :
          IsTop(priorityQueue, item) /\ item.point \in region

\* the entries in the queue, counted with their multiplicity
QueueSize == BagCardinality(priorityQueue)

\* inside findRegion, the iterations made and the entries still queued are together
\* at most the entries pushed, 8 for the seed and 8 for each accepted point, and the
\* loop can run while its condition holds
IterationsBounded ==
    pc = "grow" =>
        /\ iterations + QueueSize <= 8 * Cardinality(region)
        /\ Cardinality(region) <= Cardinality(Points(image))
        /\ LoopCondition(priorityQueue, region, maxRegionSize_)
              => \E item \in BagToSet(priorityQueue) : IsTop(priorityQueue, item)

\* C17: every call of findRegion returns: a call makes at most 8 iterations for each
\* pixel of the image, and from any state inside findRegion the program reaches a
\* state outside it.
C17_FindRegionTerminates ==
    /\ []IterationsBounded
    /\ (pc = "grow") ~> (pc # "grow")

\* C17 witness: findRegion returns with an empty queue after more iterations than the
\* image has pixels, having rejected or discarded candidates.
C17_Witness ==
    /\ Returning
    /\ priorityQueue = EmptyBag
    /\ iterations > Cardinality(Points(image))
    /\ Len(regionList) >= 2

\* the two points are 8-adjacent
Adjacent(p, q) ==
    /\ p # q
    /\ p.x - q.x \in {-1, 0, 1}
    /\ p.y - q.y \in {-1, 0, 1}

\* every element after the first is 8-adjacent to an earlier element
GrownFromFirst(q) ==
    \A i \in 2..Len(q) : \E j \in 1..(i - 1) : Adjacent(q[i], q[j])

\* C18: in the sequence findRegion builds and in every recorded region, each point
\* other than the seed is 8-adjacent to a point earlier in the sequence.
C18_RegionConnected ==
    /\ GrownFromFirst(regionList)
    /\ \A i \in 1..Len(regions_) : GrownFromFirst(regions_[i])

\* C18 witness: findRegion returns a region with a point that is not adjacent to the
\* seed.
C18_Witness ==
    /\ Returning
    /\ \E i \in 2..Len(regionList) : ~Adjacent(regionList[i], seed)

\* the threshold at the point is at least the base threshold and at most
\* base + 0.3 x (1 - base)
ThresholdRaised(point) ==
    /\ RLeq(similarityThreshold_, AppliedThreshold(point))
    /\ RLeq(calculateAdaptiveThreshold(image, similarityThreshold_, point.x, point.y),
            RAdd(similarityThreshold_,
                 RMul(R(3, 10), ROneMinus(similarityThreshold_))))

\* every element after the first has a colour whose similarity to the colour of the
\* first is at least the configured threshold
SimilarToFirst(q) ==
    \A i \in 2..Len(q) :
        SimGeq(colorSimilarity(Pixel(q[1]), Pixel(q[i])), similarityThreshold_)

\* C19: when findRegion starts, the threshold it would apply to any point of the image
\* is at least the base threshold and at most base + 0.3 x (1 - base), and every
\* non-seed point of a growing or recorded region has similarity to the seed colour
\* >= the base.
C19_NoDriftFromSeed ==
    /\ (pc = "grow" /\ iterations = 0) =>
          \A point \in Points(image) : ThresholdRaised(point)
    /\ SimilarToFirst(regionList)
    /\ \A i \in 1..Len(regions_) : SimilarToFirst(regions_[i])

\* C19 witness: in adaptive mode findRegion returns a region with a point of another
\* colour than the seed, and has left out a point that is similar enough to a member
\* but not to the seed.
C19_Witness ==
    /\ Returning
    /\ adaptiveMode_
    /\ \E i \in 2..Len(regionList) : Pixel(regionList[i]) # Pixel(seed)
    /\ \E p \in Points(image) \ region :
          /\ ~processed[p]
          /\ ~SimGeq(colorSimilarity(Pixel(seed), Pixel(p)), similarityThreshold_)
          /\ \E m \in region :
                /\ Adjacent(p, m)
                /\ SimGeq(colorSimilarity(Pixel(m), Pixel(p)), similarityThreshold_)

====
